---- MODULE Spec2Model ----
(***************************************************************************)
(* gtmpl_value: the Number type (src/number.rs), the Value union           *)
(* (src/value.rs) and the lifting / lowering conversions (src/from.rs).    *)
(*                                                                         *)
(* The library is pure: a state is the position of a caller, namely the    *)
(* native inputs it holds, the Numbers / Values it has built from them and *)
(* the result of the last query it made.                                   *)
(*                                                                         *)
(* Machine integers and floats are modelled at a reduced width: u64 / i64  *)
(* have Bits bits, the narrower integer types fewer, f64 / f32 are binary  *)
(* floating point formats with a sign, P(ty) significant bits, subnormals, *)
(* both zeros, both infinities and NaN.  Every boundary of the code        *)
(* (i64::MAX, u64::MAX, EPSILON, saturation of float -> int casts) is      *)
(* expressed through Bits, so it scales with it.                           *)
(***************************************************************************)
EXTENDS Integers, Sequences, FiniteSets, TLC

VARIABLES
    src,      \* native input of `Number::from` for the receiver
    num,      \* the Number built from src (NoNum before the call)
    acc,      \* last accessor call on num: [op, r]
    osrc,     \* native input of `Number::from` for the other operand
    other,    \* the Number built from osrc
    rel,      \* last comparison of num with other: [op, r]
    nat,      \* native input of a lifting `Value::from`
    val,      \* the Value lifted from nat (NoVal before the call)
    low,      \* last lowering `T::from_value(&val)`: [ty, r]
    fitems,   \* the two function items a caller wraps
    fwrap,    \* the Function wrappers built from them, in order
    feq       \* last comparison of the two wrappers: [op, r]

vars == <<src, num, acc, osrc, other, rel, nat, val, low, fitems, fwrap, feq>>

(***************************************************************************)
(* Bounds                                                                  *)
(***************************************************************************)
\* width in bits of u64 / i64 / usize / isize in the model
Bits == 4
\* longest Vec / Array and largest HashMap drawn as an input
MaxLen == 2
\* copies of one function body a build may emit
Copies == 2

Pow2(n) == 2 ^ n

(***************************************************************************)
(* Native integers                                                         *)
(***************************************************************************)
SignedTypes   == {"i64", "i32", "i8", "isize"}
UnsignedTypes == {"u64", "u32", "u8", "usize"}
IntTypes      == SignedTypes \cup UnsignedTypes
FloatTypes    == {"f64", "f32"}

Width(ty) ==
    CASE ty \in {"i64", "u64", "isize", "usize"} -> Bits
      [] ty \in {"i32", "u32"} -> Bits - 1
      [] ty \in {"i8", "u8"} -> Bits - 2

U64_MAX == Pow2(Bits) - 1
I64_MAX == Pow2(Bits - 1) - 1
I64_MIN == -Pow2(Bits - 1)

MinOf(ty) == IF ty \in SignedTypes THEN -Pow2(Width(ty) - 1) ELSE 0
MaxOf(ty) == IF ty \in SignedTypes THEN Pow2(Width(ty) - 1) - 1
                                   ELSE Pow2(Width(ty)) - 1

\* two's complement: the bit pattern of n in w bits, and back
ToBits(w, n) == n % Pow2(w)
Signed(w, bits) == IF bits >= Pow2(w - 1) THEN bits - Pow2(w) ELSE bits

\* sign- or zero-extension of a ty value to the Bits-wide pattern
Extend(ty, n) ==
    LET w == Width(ty)
        bits == ToBits(w, n)
    IN  IF ty \in SignedTypes /\ bits >= Pow2(w - 1)
        THEN bits + Pow2(Bits) - Pow2(w)
        ELSE bits

\* i64::from(n), `n as i64`
I64From(ty, n) == Signed(Bits, Extend(ty, n))
\* u64::from(n), `n as u64`
U64From(ty, n) == Extend(ty, n)

(***************************************************************************)
(* Native floats.  A float of type ty is NaN, an infinity, or a finite     *)
(* value  (-1)^neg * q / Unit(ty)  whose q has at most P(ty) significant   *)
(* bits.                                                                   *)
(***************************************************************************)
\* MANTISSA_DIGITS
P(ty) == IF ty = "f64" THEN Bits - 1 ELSE Bits - 2
\* binary digits after the point of the smallest subnormal
FracBits(ty) == IF ty = "f64" THEN Bits ELSE Bits - 1
Unit(ty) == Pow2(FracBits(ty))
\* q of the largest magnitudes drawn: everything below 2^(Bits+1)
QLimit(ty) == Pow2(Bits + 1) * Unit(ty)

Representable(ty, q) ==
    \E k \in 0..(Bits + 1 + FracBits(ty)) :
        q % Pow2(k) = 0 /\ q \div Pow2(k) < Pow2(P(ty))

Fin(neg, q) == [cls |-> "fin", neg |-> neg, q |-> q]
Inf(neg)    == [cls |-> "inf", neg |-> neg, q |-> 0]
NaN         == [cls |-> "nan", neg |-> FALSE, q |-> 0]

F64Values ==
    {Fin(s, q) : s \in BOOLEAN, q \in {r \in 0..(QLimit("f64") - 1) : Representable("f64", r)}}
        \cup {Inf(FALSE), Inf(TRUE), NaN}
F32Values ==
    {Fin(s, q) : s \in BOOLEAN, q \in {r \in 0..(QLimit("f32") - 1) : Representable("f32", r)}}
        \cup {Inf(FALSE), Inf(TRUE), NaN}
FloatValues(ty) == IF ty = "f64" THEN F64Values ELSE F32Values

\* $ty::EPSILON = 2^-(P-1)
EPSILON(ty) == Fin(FALSE, Unit(ty) \div Pow2(P(ty) - 1))

\* the position of a non-NaN float on the extended real line, in units
Key(ty, x) ==
    IF x.cls = "inf" THEN (IF x.neg THEN -QLimit(ty) ELSE QLimit(ty))
    ELSE (IF x.neg THEN -x.q ELSE x.q)

\* native partial_cmp, ==, < of two floats of type ty
FloatPartialCmp(ty, x, y) ==
    IF x.cls = "nan" \/ y.cls = "nan" THEN "None"
    ELSE IF Key(ty, x) < Key(ty, y) THEN "Less"
    ELSE IF Key(ty, x) > Key(ty, y) THEN "Greater"
    ELSE "Equal"
FloatEq(ty, x, y) == FloatPartialCmp(ty, x, y) = "Equal"
FloatLt(ty, x, y) == FloatPartialCmp(ty, x, y) = "Less"

\* n.fract() = n - n.trunc()
fract(ty, x) ==
    IF x.cls # "fin" THEN NaN
    ELSE IF x.q % Unit(ty) = 0 THEN Fin(FALSE, 0)
    ELSE Fin(x.neg, x.q % Unit(ty))
abs(x) == [x EXCEPT !.neg = FALSE]
is_sign_negative(x) == x.neg

\* `n as i64`: truncates toward zero, saturates, NaN gives 0
FloatAsI64(ty, x) ==
    CASE x.cls = "nan" -> 0
      [] x.cls = "inf" -> IF x.neg THEN I64_MIN ELSE I64_MAX
      [] OTHER ->
            LET t == x.q \div Unit(ty)
                v == IF x.neg THEN -t ELSE t
            IN  IF v < I64_MIN THEN I64_MIN
                ELSE IF v > I64_MAX THEN I64_MAX
                ELSE v
\* `n as u64`
FloatAsU64(ty, x) ==
    CASE x.cls = "nan" -> 0
      [] x.cls = "inf" -> IF x.neg THEN 0 ELSE U64_MAX
      [] OTHER ->
            LET t == x.q \div Unit(ty)
            IN  IF x.neg THEN 0
                ELSE IF t > U64_MAX THEN U64_MAX
                ELSE t

\* f64::from(n): exact widening
F64From(ty, x) ==
    IF ty = "f64" \/ x.cls # "fin" THEN x
    ELSE Fin(x.neg, x.q * Pow2(FracBits("f64") - FracBits(ty)))

\* `o as f64` of an integer: round to nearest, ties to even
IntAsF64(n) ==
    LET m == IF n < 0 THEN -n ELSE n
        k == CHOOSE j \in 0..(Bits + 1) :
                /\ m \div Pow2(j) < Pow2(P("f64"))
                /\ \A i \in 0..(j - 1) : m \div Pow2(i) >= Pow2(P("f64"))
        hi == m \div Pow2(k)
        rem == m - hi * Pow2(k)
        up == k > 0 /\ (2 * rem > Pow2(k) \/ (2 * rem = Pow2(k) /\ hi % 2 = 1))
        r == (IF up THEN hi + 1 ELSE hi) * Pow2(k)
    IN  Fin(n < 0, r * Unit("f64"))

(***************************************************************************)
(* Number (a transparent wrapper of enum Num)                              *)
(***************************************************************************)
NumU(n) == [kind |-> "U", n |-> n]
NumI(n) == [kind |-> "I", n |-> n]
NumF(x) == [kind |-> "F", f |-> x]
NoNum   == [kind |-> "unset"]

Some(x) == [some |-> TRUE, v |-> x]
None    == [some |-> FALSE]

IntCmp(s, o) == IF s < o THEN "Less" ELSE IF s > o THEN "Greater" ELSE "Equal"
Ord(c) == IF c = "None" THEN None ELSE Some(c)

\* partial_cmp whose float / integer arms cast the float to an integer
partial_cmp_trunc(self, o) ==
    CASE self.kind = "U" /\ o.kind = "U" -> Some(IntCmp(self.n, o.n))
      [] self.kind = "I" /\ o.kind = "I" -> Some(IntCmp(self.n, o.n))
      [] self.kind = "F" /\ o.kind = "F" -> Ord(FloatPartialCmp("f64", self.f, o.f))
      [] self.kind = "I" /\ o.kind = "U" -> Some("Less")
      [] self.kind = "U" /\ o.kind = "I" -> Some("Greater")
      [] self.kind = "F" /\ o.kind = "I" -> Some(IntCmp(FloatAsI64("f64", self.f), o.n))
      [] self.kind = "I" /\ o.kind = "F" -> Some(IntCmp(self.n, FloatAsI64("f64", o.f)))
      [] self.kind = "F" /\ o.kind = "U" -> Some(IntCmp(FloatAsU64("f64", self.f), o.n))
      [] self.kind = "U" /\ o.kind = "F" -> Some(IntCmp(self.n, FloatAsU64("f64", o.f)))

\* partial_cmp with the two signed / unsigned arms exchanged
partial_cmp_swapped(self, o) ==
    CASE self.kind = "U" /\ o.kind = "U" -> Some(IntCmp(self.n, o.n))
      [] self.kind = "I" /\ o.kind = "I" -> Some(IntCmp(self.n, o.n))
      [] self.kind = "F" /\ o.kind = "F" -> Ord(FloatPartialCmp("f64", self.f, o.f))
      [] self.kind = "I" /\ o.kind = "U" -> Some("Greater")
      [] self.kind = "U" /\ o.kind = "I" -> Some("Less")
      [] self.kind = "F" /\ o.kind = "I" -> Ord(FloatPartialCmp("f64", self.f, IntAsF64(o.n)))
      [] self.kind = "I" /\ o.kind = "F" -> Ord(FloatPartialCmp("f64", IntAsF64(self.n), o.f))
      [] self.kind = "F" /\ o.kind = "U" -> Ord(FloatPartialCmp("f64", self.f, IntAsF64(o.n)))
      [] self.kind = "U" /\ o.kind = "F" -> Ord(FloatPartialCmp("f64", IntAsF64(self.n), o.f))

\* impl PartialOrd for Num
partial_cmp(self, o) ==
    CASE self.kind = "U" /\ o.kind = "U" -> Some(IntCmp(self.n, o.n))
      [] self.kind = "I" /\ o.kind = "I" -> Some(IntCmp(self.n, o.n))
      [] self.kind = "F" /\ o.kind = "F" -> Ord(FloatPartialCmp("f64", self.f, o.f))
      [] self.kind = "I" /\ o.kind = "U" -> Some("Less")
      [] self.kind = "U" /\ o.kind = "I" -> Some("Greater")
      [] self.kind = "F" /\ o.kind = "I" -> Ord(FloatPartialCmp("f64", self.f, IntAsF64(o.n)))
      [] self.kind = "I" /\ o.kind = "F" -> Ord(FloatPartialCmp("f64", IntAsF64(self.n), o.f))
      [] self.kind = "F" /\ o.kind = "U" -> Ord(FloatPartialCmp("f64", self.f, IntAsF64(o.n)))
      [] self.kind = "U" /\ o.kind = "F" -> Ord(FloatPartialCmp("f64", IntAsF64(self.n), o.f))

\* a cross-kind equality that compares the numeric values
eq_numeric(self, o) ==
    IF self.kind = "F" \/ o.kind = "F"
    THEN partial_cmp(self, o) = Some("Equal")
    ELSE self.n = o.n

\* impl PartialEq for Num
eq(self, o) ==
    CASE self.kind = "U" /\ o.kind = "U" -> self.n = o.n
      [] self.kind = "I" /\ o.kind = "I" -> self.n = o.n
      [] self.kind = "F" /\ o.kind = "F" -> FloatEq("f64", self.f, o.f)
      [] OTHER -> FALSE

\* as_i64 without the range test of the unsigned kind: the cast wraps
as_i64_unchecked(self) ==
    CASE self.kind = "U" -> Some(Signed(Bits, self.n))
      [] self.kind = "I" -> Some(self.n)
      [] OTHER -> None

\* as_i64 that answers for the signed kind only
as_i64_strict(self) ==
    CASE self.kind = "I" -> Some(self.n)
      [] OTHER -> None

\* Number::as_i64
as_i64(self) ==
    CASE self.kind = "U" ->
            IF self.n <= I64_MAX THEN Some(Signed(Bits, self.n)) ELSE None
      [] self.kind = "I" -> Some(self.n)
      [] OTHER -> None

\* Number::as_u64
as_u64(self) ==
    CASE self.kind = "U" -> Some(self.n)
      [] self.kind = "I" ->
            IF self.n >= 0 THEN Some(ToBits(Bits, self.n)) ELSE None
      [] OTHER -> None

\* Number::as_f64
as_f64(self) ==
    CASE self.kind = "F" -> Some(self.f)
      [] OTHER -> None

\* from_i!(i64 i32 i16 i8), impl From<isize>
from_i(ty, n) ==
    IF n < 0 THEN NumI(I64From(ty, n)) ELSE NumU(U64From(ty, n))

\* from_u!(u64 u32 u16 u8), impl From<usize>
from_u(ty, n) == NumU(U64From(ty, n))

\* from_f! that never collapses to an integer kind
from_f_no_collapse(ty, n) == NumF(F64From(ty, n))

\* from_f! with `<=` in place of `<` in the epsilon test
from_f_le(ty, n) ==
    IF FloatPartialCmp(ty, abs(fract(ty, n)), EPSILON(ty)) \in {"Less", "Equal"}
    THEN (IF is_sign_negative(n) THEN NumI(FloatAsI64(ty, n))
                                 ELSE NumU(FloatAsU64(ty, n)))
    ELSE NumF(F64From(ty, n))

\* from_f!(f64 f32)
from_f(ty, n) ==
    IF FloatLt(ty, abs(fract(ty, n)), EPSILON(ty))
    THEN (IF is_sign_negative(n) THEN NumI(FloatAsI64(ty, n))
                                 ELSE NumU(FloatAsU64(ty, n)))
    ELSE NumF(F64From(ty, n))

(***************************************************************************)
(* Native numeric inputs: [ty, n] for an integer, [ty, f] for a float      *)
(***************************************************************************)
NativeInts   == UNION {{[ty |-> t, n |-> i] : i \in MinOf(t)..MaxOf(t)} : t \in IntTypes}
NativeFloats == UNION {{[ty |-> t, f |-> x] : x \in FloatValues(t)} : t \in FloatTypes}
NativeNums   == NativeInts \cup NativeFloats

IsInt(x)   == x.ty \in IntTypes
IsFloat(x) == x.ty \in FloatTypes

\* Number::from(x), by the type of x
NumberFrom(x) ==
    CASE x.ty \in SignedTypes -> from_i(x.ty, x.n)
      [] x.ty \in UnsignedTypes -> from_u(x.ty, x.n)
      [] x.ty \in FloatTypes -> from_f(x.ty, x.f)

Idle == [op |-> "idle"]

(***************************************************************************)
(* A caller that builds one Number and reads it through the accessors      *)
(***************************************************************************)
InitAccess ==
    /\ src \in NativeNums
    /\ num = NoNum /\ acc = Idle
    /\ osrc = NoNum /\ other = NoNum /\ rel = Idle
    /\ nat = Idle /\ val = Idle /\ low = Idle
    /\ fitems = <<>> /\ fwrap = <<>> /\ feq = Idle

From ==
    /\ num = NoNum
    /\ num' = NumberFrom(src)
    /\ UNCHANGED <<fitems, fwrap, feq, src, acc, osrc, other, rel, nat, val, low>>

AsI64 ==
    /\ num # NoNum
    /\ acc' = [op |-> "as_i64", r |-> as_i64(num)]
    /\ UNCHANGED <<fitems, fwrap, feq, src, num, osrc, other, rel, nat, val, low>>

AsU64 ==
    /\ num # NoNum
    /\ acc' = [op |-> "as_u64", r |-> as_u64(num)]
    /\ UNCHANGED <<fitems, fwrap, feq, src, num, osrc, other, rel, nat, val, low>>

AsF64 ==
    /\ num # NoNum
    /\ acc' = [op |-> "as_f64", r |-> as_f64(num)]
    /\ UNCHANGED <<fitems, fwrap, feq, src, num, osrc, other, rel, nat, val, low>>

NextAccess == From \/ AsI64 \/ AsU64 \/ AsF64

SpecAccess == InitAccess /\ [][NextAccess]_vars

(***************************************************************************)
(* A caller that builds two Numbers and compares them                      *)
(***************************************************************************)
InitPair ==
    /\ src \in NativeNums /\ osrc \in NativeNums
    /\ num = NoNum /\ other = NoNum
    /\ acc = Idle /\ rel = Idle
    /\ nat = Idle /\ val = Idle /\ low = Idle
    /\ fitems = <<>> /\ fwrap = <<>> /\ feq = Idle

FromOther ==
    /\ num # NoNum /\ other = NoNum
    /\ other' = NumberFrom(osrc)
    /\ UNCHANGED <<fitems, fwrap, feq, src, num, acc, osrc, rel, nat, val, low>>

Eq ==
    /\ num # NoNum /\ other # NoNum
    /\ rel' = [op |-> "eq", r |-> eq(num, other)]
    /\ UNCHANGED <<fitems, fwrap, feq, src, num, acc, osrc, other, nat, val, low>>

PartialCmp ==
    /\ num # NoNum /\ other # NoNum
    /\ rel' = [op |-> "partial_cmp", r |-> partial_cmp(num, other)]
    /\ UNCHANGED <<fitems, fwrap, feq, src, num, acc, osrc, other, nat, val, low>>

NextPair == From \/ FromOther \/ Eq \/ PartialCmp

SpecPair == InitPair /\ [][NextPair]_vars

(***************************************************************************)
(* Claims about Number                                                     *)
(***************************************************************************)
\* the integer a float with a zero fractional part denotes
FloatInt(ty, x) == (IF x.neg THEN -1 ELSE 1) * (x.q \div Unit(ty))
\* a finite float whose fractional part is exactly zero
Integral(ty, x) == x.cls = "fin" /\ x.q % Unit(ty) = 0

\* C1: a Number built from a native integer n reads back as Some(n) through
\* as_u64 iff n >= 0, as Some(n) through as_i64 iff n <= i64::MAX, and never
\* through as_f64.
C1_IntegerAccessors ==
    (IsInt(src) /\ num # NoNum) =>
        /\ acc.op = "as_u64" => acc.r = (IF src.n >= 0 THEN Some(src.n) ELSE None)
        /\ acc.op = "as_i64" => acc.r = (IF src.n <= I64_MAX THEN Some(src.n) ELSE None)
        /\ acc.op = "as_f64" => acc.r = None

\* as_i64 was called on a Number built from an unsigned integer above i64::MAX
C1_Witness ==
    /\ IsInt(src) /\ src.n > I64_MAX
    /\ acc.op = "as_i64" /\ acc.r = None

\* C4: every constructor stores the most specific kind: a non-negative
\* integral input is stored unsigned, and a signed-kind Number always holds
\* a strictly negative value.
C4_MostSpecificKind ==
    num # NoNum =>
        /\ num.kind = "I" => num.n < 0
        /\ (IsInt(src) /\ src.n >= 0) => num.kind = "U"
        /\ (IsFloat(src) /\ Integral(src.ty, src.f) /\ FloatInt(src.ty, src.f) >= 0)
                => num.kind = "U"

\* C5: a float with a zero fractional part whose value fits the integer
\* range builds a Number equal (==) to the Number built from the native
\* integer of the same mathematical value.
C5_IntegralFloatEqualsInteger ==
    ( /\ rel.op = "eq"
      /\ IsFloat(src) /\ Integral(src.ty, src.f)
      /\ IsInt(osrc) /\ osrc.n = FloatInt(src.ty, src.f) )
        => rel.r = TRUE

\* C6: a signed-kind Number compares Less than any unsigned-kind Number,
\* and an unsigned-kind Number Greater than any signed-kind one.
C6_SignedBelowUnsigned ==
    rel.op = "partial_cmp" =>
        /\ (num.kind = "I" /\ other.kind = "U") => rel.r = Some("Less")
        /\ (num.kind = "U" /\ other.kind = "I") => rel.r = Some("Greater")

\* a signed-kind Number was compared with an unsigned-kind Number that is
\* not numerically greater
C6_Witness ==
    /\ rel.op = "partial_cmp"
    /\ num.kind = "I" /\ other.kind = "U" /\ num.n >= other.n
    /\ rel.r = Some("Less")

\* C7: two Numbers are == iff they have the same kind and their stored
\* values are equal (natively: for the floating kind, f64's ==).
C7_EqualIffSameKindAndValue ==
    rel.op = "eq" =>
        rel.r = ( /\ num.kind = other.kind
                  /\ IF num.kind = "F"
                     THEN /\ num.f.cls # "nan" /\ other.f.cls # "nan"
                          /\ Key("f64", num.f) = Key("f64", other.f)
                     ELSE num.n = other.n )

\* two Numbers of the same mathematical value and differing kinds were
\* compared, and are unequal
C7_Witness ==
    /\ rel.op = "eq"
    /\ num.kind = "U" /\ other.kind = "I" /\ num.n = other.n
    /\ rel.r = FALSE

\* C8: a finite float whose fractional part is at least EPSILON in
\* magnitude is stored in the floating kind: as_f64 gives back its value,
\* as_u64 and as_i64 give None.
C8_FractionalStaysFloat ==
    ( /\ IsFloat(src) /\ src.f.cls = "fin"
      /\ src.f.q % Unit(src.ty) >= Unit(src.ty) \div Pow2(P(src.ty) - 1)
      /\ num # NoNum )
        => /\ num.kind = "F"
           /\ acc.op = "as_f64" =>
                /\ acc.r.some
                /\ acc.r.v.cls = "fin" /\ acc.r.v.neg = src.f.neg
                /\ acc.r.v.q * Unit(src.ty) = src.f.q * Unit("f64")
           /\ acc.op = "as_u64" => acc.r = None
           /\ acc.op = "as_i64" => acc.r = None

\* as_f64 was called on a Number built from a float whose fractional part
\* is exactly EPSILON
C8_Witness ==
    /\ IsFloat(src) /\ src.f.cls = "fin"
    /\ src.f.q % Unit(src.ty) = Unit(src.ty) \div Pow2(P(src.ty) - 1)
    /\ acc.op = "as_f64" /\ acc.r.some

(***************************************************************************)
(* Value                                                                   *)
(***************************************************************************)
NoValue     == [tag |-> "NoValue"]
Nil         == [tag |-> "Nil"]
Bool(b)     == [tag |-> "Bool", b |-> b]
String(s)   == [tag |-> "String", s |-> s]
Object(o)   == [tag |-> "Object", m |-> o]
Map(m)      == [tag |-> "Map", m |-> m]
Array(a)    == [tag |-> "Array", a |-> a]
Function(f) == [tag |-> "Function", f |-> f]
Number(n)   == [tag |-> "Number", n |-> n]
NoVal       == [tag |-> "unset"]

(***************************************************************************)
(* Lifting: impl From<..> for Value.  A native input is a record tagged    *)
(* with its Rust type.                                                     *)
(***************************************************************************)
StringTypes == {"String", "&String", "&str", "Cow<str>"}

NatInt(t, n)   == [ty |-> t, n |-> n]
NatFloat(t, x) == [ty |-> t, f |-> x]
NatBool(b)     == [ty |-> "bool", b |-> b]
NatStr(t, s)   == [ty |-> t, s |-> s]
NatFunc(f)     == [ty |-> "Func", f |-> f]
\* Vec<T> and &[T]: of names T, xs holds the elements
NatVec(t, of, xs) == [ty |-> t, of |-> of, xs |-> xs]
NatMap(of, m)  == [ty |-> "HashMap", of |-> of, m |-> m]
NatOpt(of, o)  == [ty |-> "Option", of |-> of, o |-> o]
NatValue(v)    == [ty |-> "Value", v |-> v]

RECURSIVE ValueFrom(_)

\* from_num!
from_num(x) == Number(NumberFrom(x))
\* impl From<bool>
from_bool(x) == Bool(x.b)
\* impl From<&String>, From<String>, From<&str>, From<Cow<str>>
from_str(x) == String(x.s)
\* impl From<Func>
from_func(x) == Function(x.f)
\* impl From<Vec<T>>, impl From<&[T]>
from_vec(x) == Array([i \in 1..Len(x.xs) |-> ValueFrom(x.xs[i])])
\* impl From<HashMap<String, T>>
from_hashmap(x) == Map([k \in DOMAIN x.m |-> ValueFrom(x.m[k])])

\* From<Option<T>> that lifts the empty optional to Nil
from_option_nil(x) == IF x.o.some THEN ValueFrom(x.o.v) ELSE Nil

\* impl From<Option<T>>
from_option(x) == IF x.o.some THEN ValueFrom(x.o.v) ELSE NoValue

\* Value::from<T: Into<Value>>, by the type of x
ValueFrom(x) ==
    CASE x.ty \in IntTypes \cup FloatTypes -> from_num(x)
      [] x.ty = "bool" -> from_bool(x)
      [] x.ty \in StringTypes -> from_str(x)
      [] x.ty = "Func" -> from_func(x)
      [] x.ty \in {"Vec", "&[T]"} -> from_vec(x)
      [] x.ty = "HashMap" -> from_hashmap(x)
      [] x.ty = "Option" -> from_option(x)
      [] x.ty = "Value" -> x.v

(***************************************************************************)
(* Lowering: impl FromValue<T> for T.  A target type is a descriptor.      *)
(***************************************************************************)
TI64        == [k |-> "i64"]
TU64        == [k |-> "u64"]
TF64        == [k |-> "f64"]
TString     == [k |-> "String"]
VecOf(T)    == [k |-> "Vec", of |-> T]
HashMapOf(T) == [k |-> "HashMap", of |-> T]

RECURSIVE from_value(_, _)
RECURSIVE flat_map(_, _)

\* impl FromValue<i64> for i64
i64_from_value(v) == IF v.tag = "Number" THEN as_i64(v.n) ELSE None
\* impl FromValue<u64> for u64
u64_from_value(v) == IF v.tag = "Number" THEN as_u64(v.n) ELSE None
\* impl FromValue<f64> for f64
f64_from_value(v) == IF v.tag = "Number" THEN as_f64(v.n) ELSE None
\* impl FromValue<String> for String
string_from_value(v) == IF v.tag = "String" THEN Some(v.s) ELSE None

\* a.iter().flat_map(|v| T::from_value(v)).collect(): the elements that lower
flat_map(T, a) ==
    IF a = <<>> THEN <<>>
    ELSE LET r == from_value(T, Head(a))
         IN  (IF r.some THEN <<r.v>> ELSE <<>>) \o flat_map(T, Tail(a))

\* Vec<T>::from_value without the length test
vec_from_value_partial(T, v) ==
    IF v.tag = "Array" THEN Some(flat_map(T, v.a)) ELSE None

\* impl FromValue<Vec<T>> for Vec<T>
vec_from_value(T, v) ==
    IF v.tag = "Array"
    THEN LET xs == flat_map(T, v.a)
         IN  IF Len(xs) = Len(v.a) THEN Some(xs) ELSE None
    ELSE None

\* o.iter().map(..).flat_map(..).collect(): the entries whose value lowers
collect_entries(T, o) ==
    [k \in {j \in DOMAIN o : from_value(T, o[j]).some} |-> from_value(T, o[k]).v]

\* HashMap<String, T>::from_value without the length test
hashmap_from_value_partial(T, v) ==
    IF v.tag \in {"Object", "Map"} THEN Some(collect_entries(T, v.m)) ELSE None

\* impl FromValue<HashMap<String, T>> for HashMap<String, T>
hashmap_from_value(T, v) ==
    IF v.tag \in {"Object", "Map"}
    THEN LET m == collect_entries(T, v.m)
         IN  IF Cardinality(DOMAIN m) = Cardinality(DOMAIN v.m) THEN Some(m) ELSE None
    ELSE None

\* pub fn from_value<T: FromValue<T>>, by the target type
from_value(T, v) ==
    CASE T.k = "i64" -> i64_from_value(v)
      [] T.k = "u64" -> u64_from_value(v)
      [] T.k = "f64" -> f64_from_value(v)
      [] T.k = "String" -> string_from_value(v)
      [] T.k = "Vec" -> vec_from_value(T.of, v)
      [] T.k = "HashMap" -> hashmap_from_value(T.of, v)

(***************************************************************************)
(* A caller that lifts a native input (or builds a Value from the public   *)
(* variants) and lowers the Value to a requested type                      *)
(***************************************************************************)
Strs  == {"a", "b"}
Keys  == {"a", "b", "c"}
Funcs == {"f", "g"}

SeqsUpTo(S) == UNION {[1..n -> S] : n \in 0..MaxLen}
MapsUpTo(S) == UNION {[D -> S] : D \in {d \in SUBSET Keys : Cardinality(d) <= MaxLen}}

\* 1.5f64
OneAndHalf == Fin(FALSE, (3 * Unit("f64")) \div 2)

\* native elements of the collections drawn
ElemI64 == {NatInt("i64", n) : n \in {I64_MIN, -1, 0, 1, I64_MAX}}
ElemU64 == {NatInt("u64", n) : n \in {0, 1, I64_MAX + 1, U64_MAX}}
ElemF64 == {NatFloat("f64", x) : x \in {Fin(TRUE, 0), OneAndHalf, NaN}}
ElemStr == {NatStr("&str", s) : s \in Strs}

NativeScalars ==
    NativeNums
        \cup {NatBool(b) : b \in BOOLEAN}
        \cup {NatStr(t, s) : t \in StringTypes, s \in Strs}
        \cup {NatFunc(f) : f \in Funcs}
NativeVecs ==
    {NatVec(t, "i64", xs) : t \in {"Vec", "&[T]"}, xs \in SeqsUpTo(ElemI64)}
        \cup {NatVec("Vec", "u64", xs) : xs \in SeqsUpTo(ElemU64)}
        \cup {NatVec("Vec", "f64", xs) : xs \in SeqsUpTo(ElemF64)}
        \cup {NatVec("Vec", "&str", xs) : xs \in SeqsUpTo(ElemStr)}
NativeMaps ==
    {NatMap("u64", m) : m \in MapsUpTo(ElemU64)}
        \cup {NatMap("&str", m) : m \in MapsUpTo(ElemStr)}
OptPayloads ==
    ElemI64 \cup ElemU64 \cup ElemF64 \cup ElemStr
        \cup {NatBool(TRUE), NatFunc("f")}
        \cup {NatVec("Vec", "i64", xs) : xs \in SeqsUpTo({NatInt("i64", -1), NatInt("i64", 1)})}
NativeOpts ==
    {NatOpt(x.ty, Some(x)) : x \in OptPayloads}
        \cup {NatOpt(t, None) : t \in {"i64", "f64", "&str", "bool", "Func", "Vec"}}
Liftables == NativeScalars \cup NativeVecs \cup NativeMaps \cup NativeOpts

\* Values a caller builds from the public variants; their Numbers come from
\* the constructors
ElemValues ==
    { NoValue, Nil, Bool(TRUE), String("a"), Function("f"),
      Number(from_u("u64", 1)), Number(from_u("u64", U64_MAX)),
      Number(from_i("i64", -1)),
      Number(from_f("f64", OneAndHalf)),
      Array(<<>>), Array(<<Number(from_u("u64", 1))>>), Array(<<String("a")>>),
      Map([k \in {"a"} |-> Number(from_u("u64", 1))]) }
BuiltValues ==
    ElemValues
        \cup {Array(a) : a \in SeqsUpTo(ElemValues)}
        \cup {Map(m) : m \in MapsUpTo(ElemValues)}
        \cup {Object(m) : m \in MapsUpTo(ElemValues)}

ScalarTargets == {TI64, TU64, TF64, TString}
ElemTargets   == ScalarTargets \cup {VecOf(TI64), HashMapOf(TU64)}

InitValue ==
    /\ \/ nat \in Liftables /\ val = NoVal
       \/ \E v \in BuiltValues : nat = NatValue(v) /\ val = v
    /\ low = Idle
    /\ src = NoNum /\ num = NoNum /\ acc = Idle
    /\ osrc = NoNum /\ other = NoNum /\ rel = Idle
    /\ fitems = <<>> /\ fwrap = <<>> /\ feq = Idle

Lift(types, v) ==
    /\ val = NoVal /\ nat.ty \in types
    /\ val' = v
    /\ UNCHANGED <<fitems, fwrap, feq, src, num, acc, osrc, other, rel, nat, low>>

LiftNum     == Lift(IntTypes \cup FloatTypes, from_num(nat))
LiftBool    == Lift({"bool"}, from_bool(nat))
LiftStr     == Lift(StringTypes, from_str(nat))
LiftFunc    == Lift({"Func"}, from_func(nat))
LiftVec     == Lift({"Vec", "&[T]"}, from_vec(nat))
LiftHashMap == Lift({"HashMap"}, from_hashmap(nat))
LiftOption  == Lift({"Option"}, from_option(nat))

Lower(T, r) ==
    /\ val # NoVal
    /\ low' = [ty |-> T, r |-> r]
    /\ UNCHANGED <<fitems, fwrap, feq, src, num, acc, osrc, other, rel, nat, val>>

I64FromValue     == Lower(TI64, i64_from_value(val))
U64FromValue     == Lower(TU64, u64_from_value(val))
F64FromValue     == Lower(TF64, f64_from_value(val))
StringFromValue  == Lower(TString, string_from_value(val))
VecFromValue     == \E T \in ElemTargets : Lower(VecOf(T), vec_from_value(T, val))
HashMapFromValue == \E T \in ElemTargets : Lower(HashMapOf(T), hashmap_from_value(T, val))

NextValue ==
    \/ LiftNum \/ LiftBool \/ LiftStr \/ LiftFunc
    \/ LiftVec \/ LiftHashMap \/ LiftOption
    \/ I64FromValue \/ U64FromValue \/ F64FromValue \/ StringFromValue
    \/ VecFromValue \/ HashMapFromValue

SpecValue == InitValue /\ [][NextValue]_vars

(***************************************************************************)
(* Claims about lifting and lowering                                       *)
(***************************************************************************)
\* C2: Vec<T>::from_value(v) is Some(xs) iff v is an Array whose every
\* element lowers to T; then xs has the length of the array and xs[i] is the
\* lowering of element i.  Otherwise it is None, never a shorter sequence.
C2_VecAllOrNothing ==
    (low # Idle /\ low.ty.k = "Vec") =>
        LET T == low.ty.of
            all == /\ val.tag = "Array"
                   /\ \A i \in 1..Len(val.a) : from_value(T, val.a[i]).some
        IN  /\ low.r.some <=> all
            /\ low.r.some =>
                /\ Len(low.r.v) = Len(val.a)
                /\ \A i \in 1..Len(val.a) : low.r.v[i] = from_value(T, val.a[i]).v

\* an Array with an element that lowers and an element that does not was
\* lowered to a Vec, giving None
C2_Witness ==
    /\ low # Idle /\ low.ty = VecOf(TI64)
    /\ val.tag = "Array" /\ Len(val.a) = 2
    /\ i64_from_value(val.a[1]).some /\ ~i64_from_value(val.a[2]).some
    /\ low.r = None

\* C3: HashMap<String, T>::from_value(v) is Some(m) iff v is a Map or an
\* Object whose every entry's value lowers to T; then m has the key set of
\* the source and maps each key to the lowering of its value.  Otherwise it
\* is None.
C3_HashMapAllOrNothing ==
    (low # Idle /\ low.ty.k = "HashMap") =>
        LET T == low.ty.of
            all == /\ val.tag \in {"Map", "Object"}
                   /\ \A k \in DOMAIN val.m : from_value(T, val.m[k]).some
        IN  /\ low.r.some <=> all
            /\ low.r.some =>
                /\ DOMAIN low.r.v = DOMAIN val.m
                /\ \A k \in DOMAIN val.m : low.r.v[k] = from_value(T, val.m[k]).v

\* an Object with an entry that lowers and an entry that does not was
\* lowered to a HashMap, giving None
C3_Witness ==
    /\ low # Idle /\ low.ty = HashMapOf(TU64)
    /\ val.tag = "Object" /\ DOMAIN val.m = {"a", "b"}
    /\ u64_from_value(val.m["a"]).some /\ ~u64_from_value(val.m["b"]).some
    /\ low.r = None

\* C9: lifting a sequence xs of i64 gives an Array of the same length whose
\* i-th element is the lift of xs[i], and lowering it to Vec<i64> gives
\* Some(xs).
C9_VecI64RoundTrip ==
    (nat.ty \in {"Vec", "&[T]"} /\ nat.of = "i64" /\ val # NoVal) =>
        /\ val.tag = "Array"
        /\ Len(val.a) = Len(nat.xs)
        /\ \A i \in 1..Len(nat.xs) : val.a[i] = Number(from_i("i64", nat.xs[i].n))
        /\ (low # Idle /\ low.ty = VecOf(TI64)) =>
                low.r = Some([i \in 1..Len(nat.xs) |-> nat.xs[i].n])

\* a sequence holding a negative and a non-negative i64 was lifted and
\* lowered to Vec<i64>
C9_Witness ==
    /\ nat.ty = "Vec" /\ nat.of = "i64" /\ Len(nat.xs) = 2
    /\ nat.xs[1].n < 0 /\ nat.xs[2].n = I64_MAX
    /\ low # Idle /\ low.ty = VecOf(TI64) /\ low.r.some

\* C10: lifting an empty optional gives NoValue (which is not Nil), and
\* lifting Some(x) gives the Value that lifting x gives.
C10_OptionErased ==
    (nat.ty = "Option" /\ val # NoVal) =>
        IF nat.o.some THEN val = ValueFrom(nat.o.v)
        ELSE val = NoValue /\ val # Nil

\* a present optional holding a string was lifted
C10_Witness ==
    /\ nat.ty = "Option" /\ nat.o.some /\ nat.o.v.ty = "&str"
    /\ val = String(nat.o.v.s)

(***************************************************************************)
(* Function: a wrapper of a plain function pointer.  A caller defines      *)
(* function items and coerces them to Func; the address a coercion yields  *)
(* is the build's choice.  The build may emit the code of an item more     *)
(* than once (one copy per codegen unit), and may emit one copy for items  *)
(* with the same body, so an address names a body and a copy of it.        *)
(***************************************************************************)
\* f and g have the same body, h a different one
FnItems == {"f", "g", "h"}
Body(item) == IF item = "h" THEN "len" ELSE "first"

\* `item as Func`: the addresses the coercion can yield
FuncPtrs(item) == {[body |-> Body(item), copy |-> c] : c \in 1..Copies}

\* struct Function { f }
FunctionOf(p) == [f |-> p]

\* impl PartialEq for Function
function_eq(self, o) == self.f = o.f

\* #[derive(PartialEq)] for Value, on two Function variants
value_function_eq(v, w) ==
    v.tag = "Function" /\ w.tag = "Function" /\ function_eq(FunctionOf(v.f), FunctionOf(w.f))

InitFunction ==
    /\ fitems \in FnItems \X FnItems
    /\ fwrap = <<>> /\ feq = Idle
    /\ src = NoNum /\ num = NoNum /\ acc = Idle
    /\ osrc = NoNum /\ other = NoNum /\ rel = Idle
    /\ nat = Idle /\ val = Idle /\ low = Idle

\* Function { f: item }, for the next item
Wrap ==
    /\ Len(fwrap) < 2
    /\ \E p \in FuncPtrs(fitems[Len(fwrap) + 1]) : fwrap' = Append(fwrap, FunctionOf(p))
    /\ UNCHANGED <<src, num, acc, osrc, other, rel, nat, val, low, fitems, feq>>

FunctionEq ==
    /\ Len(fwrap) = 2
    /\ feq' = [op |-> "eq", r |-> function_eq(fwrap[1], fwrap[2])]
    /\ UNCHANGED <<src, num, acc, osrc, other, rel, nat, val, low, fitems, fwrap>>

ValueFunctionEq ==
    /\ Len(fwrap) = 2
    /\ feq' = [op |-> "value_eq",
               r |-> value_function_eq(Function(fwrap[1].f), Function(fwrap[2].f))]
    /\ UNCHANGED <<src, num, acc, osrc, other, rel, nat, val, low, fitems, fwrap>>

NextFunction == Wrap \/ FunctionEq \/ ValueFunctionEq

SpecFunction == InitFunction /\ [][NextFunction]_vars

ExactCmp(i, x) ==
    IF x.cls = "nan" THEN None
    ELSE Some(IntCmp(i * Unit("f64"), Key("f64", x)))
Reverse(c) ==
    IF ~c.some THEN c
    ELSE Some(IF c.v = "Less" THEN "Greater" ELSE IF c.v = "Greater" THEN "Less" ELSE "Equal")

\* C12: a floating-kind Number and an integer-kind Number are ordered, in
\* either argument order, by f64's comparison of the float with the integer
\* cast to f64; the integer is Less exactly when it is numerically smaller,
\* and the two argument orders give reverse answers.
C12_FloatAgainstInteger ==
    rel.op = "partial_cmp" =>
        /\ (num.kind \in {"U", "I"} /\ other.kind = "F") =>
                /\ rel.r = Ord(FloatPartialCmp("f64", IntAsF64(num.n), other.f))
                /\ rel.r = ExactCmp(num.n, other.f)
        /\ (num.kind = "F" /\ other.kind \in {"U", "I"}) =>
                /\ rel.r = Ord(FloatPartialCmp("f64", num.f, IntAsF64(other.n)))
                /\ rel.r = Reverse(ExactCmp(other.n, num.f))

\* an unsigned-kind Number was compared with a floating-kind Number of the
\* same integer part and a fraction, and is Less
C12_Witness ==
    /\ rel.op = "partial_cmp"
    /\ num.kind = "U" /\ other.kind = "F" /\ other.f.cls = "fin" /\ ~other.f.neg
    /\ other.f.q \div Unit("f64") = num.n /\ num.n > 0
    /\ rel.r = Some("Less")

\* C13: for Numbers built from non-NaN inputs, partial_cmp is Some, and it
\* is Equal iff == is true: exactly one of <, ==, > holds.
C13_EqConsistentWithOrd ==
    ( /\ num # NoNum /\ other # NoNum
      /\ ~(IsFloat(src) /\ src.f.cls = "nan")
      /\ ~(IsFloat(osrc) /\ osrc.f.cls = "nan") )
        => /\ rel.op = "partial_cmp" =>
                /\ rel.r.some
                /\ (rel.r.v = "Equal") <=> eq(num, other)
           /\ rel.op = "eq" =>
                (rel.r <=> partial_cmp(num, other) = Some("Equal"))

\* a Number built from a float and a Number built from an integer were
\* compared and are Equal
C13_Witness ==
    /\ IsFloat(src) /\ IsInt(osrc)
    /\ rel.op = "partial_cmp" /\ rel.r = Some("Equal")

====
